---- MODULE Spec2Model ----
(***************************************************************************)
(* HTTP CONNECT proxy support of the mosquitto client library:             *)
(*   lib/mosquitto_proxy.c  mosquitto_proxy_set   (proxy configuration)    *)
(*   lib/net_mosq_proxy.c   net__proxy_connect    (tunnel handshake)       *)
(*                                                                         *)
(* Bytes are integers 0..255, C strings are sequences of non-zero bytes,   *)
(* heap blocks are sequences of bytes in which Uninit marks a byte that    *)
(* was never written.  The socket, poll() and the allocator are the        *)
(* environment: their results are chosen nondeterministically.             *)
(***************************************************************************)
EXTENDS Integers, Sequences, FiniteSets, TLC

\* ------------------------------------------------------------------ bounds
\* sizeof(request) of net__proxy_connect, scaled down from 1024.
sizeof_request == 64
\* response_size of net__proxy_connect, scaled down from 2048.
response_size == 20
\* Number of heap blocks the allocator can hand out at the same time.
NumAddr == 3

\* ------------------------------------------------------------ C primitives
NULL == 0
Uninit == 0 - 1
\* A (const char *) argument that is the null pointer.
NULLSTR == << Uninit >>

Min(a, b) == IF a < b THEN a ELSE b

Take(s, k) == SubSeq(s, 1, Min(k, Len(s)))

\* Index (1-based) of the first NUL of a buffer, Len+1 if there is none.
RECURSIVE NulFrom(_, _)
NulFrom(buf, i) ==
    IF i > Len(buf) THEN i
    ELSE IF buf[i] = 0 THEN i
    ELSE NulFrom(buf, i + 1)

\* The C string stored at the start of a buffer: the bytes before the first NUL.
CStr(buf) == SubSeq(buf, 1, NulFrom(buf, 1) - 1)

strlen(s) == Len(s)

\* strstr(haystack, needle) on C strings: 0-based offset of the first
\* occurrence, or -1 for a null result.
RECURSIVE StrStrFrom(_, _, _)
StrStrFrom(hay, needle, i) ==
    IF i + Len(needle) > Len(hay) THEN 0 - 1
    ELSE IF SubSeq(hay, i + 1, i + Len(needle)) = needle THEN i
    ELSE StrStrFrom(hay, needle, i + 1)

strstr(hay, needle) == StrStrFrom(hay, needle, 0)

\* strncmp(s1, s2, k) on C strings: 0 when the first k characters (or both
\* whole strings, when shorter) agree, 1 otherwise.
strncmp(s1, s2, k) == IF Take(s1, k) = Take(s2, k) THEN 0 ELSE 1

\* printf's %d conversion.
RECURSIVE Digits(_)
Digits(v) == IF v < 10 THEN << 48 + v >> ELSE Digits(v \div 10) \o << 48 + (v % 10) >>

FormatD(v) == IF v < 0 THEN << 45 >> \o Digits(0 - v) ELSE Digits(v)

\* --------------------------------------------------------------- allocator
Addr == 1 .. NumAddr

EmptyBlocks == [a \in Addr |-> [live |-> FALSE, data |-> << >>]]

FreeAddrs(M) == {a \in Addr : ~M.blocks[a].live}

FirstFree(M) == CHOOSE a \in FreeAddrs(M) : \A b \in FreeAddrs(M) : a <= b

\* mosquitto__malloc(size); ok = FALSE is the allocator refusing.
mosquitto__malloc(M, size, ok) ==
    IF ok /\ FreeAddrs(M) # {}
    THEN [M |-> [M EXCEPT !.blocks[FirstFree(M)] =
                     [live |-> TRUE, data |-> [i \in 1 .. size |-> Uninit]]],
          ptr |-> FirstFree(M)]
    ELSE [M |-> M, ptr |-> NULL]

\* mosquitto__free(ptr); freeing a block that is not live is recorded in err.
mosquitto__free(M, ptr) ==
    IF ptr = NULL THEN M
    ELSE IF M.blocks[ptr].live
         THEN [M EXCEPT !.blocks[ptr] = [live |-> FALSE, data |-> << >>]]
         ELSE [M EXCEPT !.err = TRUE]

\* Store the bytes bs at offset off (0-based) of block ptr; a store outside
\* the block or into a dead block is recorded in err and has no effect.
Store(M, ptr, off, bs) ==
    IF ptr = NULL \/ ~M.blocks[ptr].live \/ off + Len(bs) > Len(M.blocks[ptr].data)
    THEN [M EXCEPT !.err = TRUE]
    ELSE [M EXCEPT !.blocks[ptr].data =
              [i \in 1 .. Len(@) |->
                  IF i > off /\ i <= off + Len(bs) THEN bs[i - off] ELSE @[i]]]

\* The C string read through ptr; reading a dead block is recorded by Touch.
Load(M, ptr) == CStr(M.blocks[ptr].data)

Touch(M, ptr) ==
    IF ptr = NULL \/ ~M.blocks[ptr].live THEN [M EXCEPT !.err = TRUE] ELSE M

\* mosquitto__strdup(s).
mosquitto__strdup(M, s, ok) ==
    LET r == mosquitto__malloc(M, strlen(s) + 1, ok)
    IN  IF r.ptr = NULL THEN r
        ELSE [M |-> Store(r.M, r.ptr, 0, s \o << 0 >>), ptr |-> r.ptr]

\* ------------------------------------------------- lib/mosquitto_proxy.c
MOSQ_ERR_SUCCESS == "MOSQ_ERR_SUCCESS"
MOSQ_ERR_NOMEM == "MOSQ_ERR_NOMEM"
MOSQ_ERR_INVAL == "MOSQ_ERR_INVAL"
MOSQ_ERR_PROXY == "MOSQ_ERR_PROXY"

\* "Proxy-Authorization: "
prefix == << 80, 114, 111, 120, 121, 45, 65, 117, 116, 104, 111, 114, 105,
             122, 97, 116, 105, 111, 110, 58, 32 >>
\* "\r\n"
suffix == << 13, 10 >>

\* The argument checks at the head of mosquitto_proxy_set.
SetArgsInvalid(mosqNull, host, port) ==
    \/ mosqNull
    \/ host = NULLSTR
    \/ port <= 0
    \/ port > 65535

\* "Clear any existing proxy settings first".
ClearProxy(M, px) ==
    LET M1 == IF px.host # NULL THEN mosquitto__free(M, px.host) ELSE M
        p1 == [px EXCEPT !.host = NULL]
        M2 == IF p1.auth_header # NULL THEN mosquitto__free(M1, p1.auth_header) ELSE M1
        p2 == [p1 EXCEPT !.auth_header = NULL]
    IN  [M |-> M2, proxy |-> p2]

\* SetAuthHeader that drops the host copy without freeing it when the header
\* line cannot be allocated.
SetAuthHeader_HostNotFreed(M, px, auth_value, okAuth) ==
    IF auth_value # NULLSTR /\ strlen(auth_value) > 0
    THEN LET len == strlen(prefix) + strlen(auth_value) + strlen(suffix) + 1
             r == mosquitto__malloc(M, len, okAuth)
         IN  IF r.ptr = NULL
             THEN [M |-> r.M,
                   proxy |-> [px EXCEPT !.auth_header = NULL, !.host = NULL],
                   rc |-> MOSQ_ERR_NOMEM]
             ELSE [M |-> Store(r.M, r.ptr, 0,
                               Take(prefix \o auth_value \o suffix, len - 1) \o << 0 >>),
                   proxy |-> [px EXCEPT !.auth_header = r.ptr],
                   rc |-> MOSQ_ERR_SUCCESS]
    ELSE [M |-> M, proxy |-> [px EXCEPT !.auth_header = NULL], rc |-> MOSQ_ERR_SUCCESS]

\* The auth_value branch of mosquitto_proxy_set, entered with the host copy
\* installed.
SetAuthHeader(M, px, auth_value, okAuth) ==
    IF auth_value # NULLSTR /\ strlen(auth_value) > 0
    THEN LET len == strlen(prefix) + strlen(auth_value) + strlen(suffix) + 1
             r == mosquitto__malloc(M, len, okAuth)
         IN  IF r.ptr = NULL
             THEN [M |-> mosquitto__free(r.M, px.host),
                   proxy |-> [px EXCEPT !.auth_header = NULL, !.host = NULL],
                   rc |-> MOSQ_ERR_NOMEM]
             ELSE [M |-> Store(r.M, r.ptr, 0,
                               Take(prefix \o auth_value \o suffix, len - 1) \o << 0 >>),
                   proxy |-> [px EXCEPT !.auth_header = r.ptr],
                   rc |-> MOSQ_ERR_SUCCESS]
    ELSE [M |-> M, proxy |-> [px EXCEPT !.auth_header = NULL], rc |-> MOSQ_ERR_SUCCESS]

\* proxy_set that clears the old settings before it checks the port.
proxy_set_ClearBeforePortCheck(M, px, mosqNull, host, port, auth_value, okHost, okAuth) ==
    IF mosqNull \/ host = NULLSTR
    THEN [M |-> M, proxy |-> px, rc |-> MOSQ_ERR_INVAL]
    ELSE LET c == ClearProxy(M, px)
             d == mosquitto__strdup(c.M, host, okHost)
         IN  IF port <= 0 \/ port > 65535
             THEN [M |-> c.M, proxy |-> c.proxy, rc |-> MOSQ_ERR_INVAL]
             ELSE IF d.ptr = NULL
             THEN [M |-> d.M, proxy |-> [c.proxy EXCEPT !.host = NULL],
                   rc |-> MOSQ_ERR_NOMEM]
             ELSE SetAuthHeader(d.M, [c.proxy EXCEPT !.host = d.ptr, !.port = port],
                                auth_value, okAuth)

\* mosquitto_proxy_set(mosq, host, port, auth_value): the memory, the
\* configuration and the return code it leaves.
proxy_set(M, px, mosqNull, host, port, auth_value, okHost, okAuth) ==
    IF SetArgsInvalid(mosqNull, host, port)
    THEN [M |-> M, proxy |-> px, rc |-> MOSQ_ERR_INVAL]
    ELSE LET c == ClearProxy(M, px)
             d == mosquitto__strdup(c.M, host, okHost)
         IN  IF d.ptr = NULL
             THEN [M |-> d.M, proxy |-> [c.proxy EXCEPT !.host = NULL],
                   rc |-> MOSQ_ERR_NOMEM]
             ELSE SetAuthHeader(d.M, [c.proxy EXCEPT !.host = d.ptr, !.port = port],
                                auth_value, okAuth)

\* ---------------------------------------------------- lib/net_mosq_proxy.c
\* "\r\n\r\n"
terminator == << 13, 10, 13, 10 >>
\* "HTTP/1.1 200" and "HTTP/1.0 200"
Http11_200 == << 72, 84, 84, 80, 47, 49, 46, 49, 32, 50, 48, 48 >>
Http10_200 == << 72, 84, 84, 80, 47, 49, 46, 48, 32, 50, 48, 48 >>

\* "CONNECT %s:%d HTTP/1.1\r\n" "Host: %s:%d\r\n"
ConnectHead(host, port) ==
    << 67, 79, 78, 78, 69, 67, 84, 32 >> \o host \o << 58 >> \o FormatD(port)
        \o << 32, 72, 84, 84, 80, 47, 49, 46, 49, 13, 10 >>
        \o << 72, 111, 115, 116, 58, 32 >> \o host \o << 58 >> \o FormatD(port)
        \o << 13, 10 >>

\* FormatRequest without the blank line after the auth header line.
FormatRequest_NoBlankLine(host, port, auth) ==
    IF auth # NULLSTR
    THEN ConnectHead(host, port) \o auth
    ELSE ConnectHead(host, port) \o << 13, 10 >>

\* What the two snprintf calls would produce given unlimited room; auth is
\* the C string at mosq->proxy.auth_header, or NULLSTR when that is null.
FormatRequest(host, port, auth) ==
    IF auth # NULLSTR
    THEN ConnectHead(host, port) \o auth \o << 13, 10 >>
    ELSE ConnectHead(host, port) \o << 13, 10 >>

\* snprintf(request, sizeof(request), ...): the bytes stored (truncated to the
\* buffer) and the returned length (of the untruncated text).
snprintf_request(host, port, auth) ==
    [buf |-> Take(FormatRequest(host, port, auth), sizeof_request - 1),
     len |-> Len(FormatRequest(host, port, auth))]

\* RequestTooLong without the comparison against the buffer size.
RequestTooLong_NoSizeCheck(len) == len <= 0

RequestTooLong(len) == len <= 0 \/ len >= sizeof_request

\* WriteFailed that accepts a short write.
WriteFailed_ErrorOnly(n, len) == n < 0

WriteFailed(n, len) == n # len

LoopCondition(total) == total < response_size - 1

\* ReadCount that forgets the byte kept for the NUL.
ReadCount_NoRoomForNul(total) == response_size - total

ReadCount(total) == response_size - 1 - total

\* Advance that leaves the cursor where it was.
Advance_NoProgress(total, n) == total

\* Advance that sets the cursor to the size of the last read.
Advance_Assign(total, n) == n

Advance(total, n) == total + n

\* strstr(response, terminator) is non-null.
HasTerminator(resp) == strstr(resp, terminator) # 0 - 1

\* StatusRejected comparing the protocol version only.
StatusRejected_ShortCompare(resp) ==
    strncmp(resp, Http11_200, 9) # 0 /\ strncmp(resp, Http10_200, 9) # 0

\* The HTTP 200 check.
StatusRejected(resp) ==
    strncmp(resp, Http11_200, 12) # 0 /\ strncmp(resp, Http10_200, 12) # 0

\* Log format strings of net__proxy_connect.
LOG_TOO_LONG == "Proxy CONNECT request too long."
LOG_WRITE == "Error writing to proxy: %s."
LOG_POLL == "Proxy poll error: %s."
LOG_TIMEOUT == "Proxy connect timed out."
LOG_CLOSED == "Proxy connection closed prematurely."
LOG_READ == "Error reading from proxy: %s."
LOG_SOCKET == "Proxy socket error during connect."
LOG_INCOMPLETE == "Proxy response headers too long or incomplete."
LOG_FAILED == "Proxy CONNECT failed: %s"
LOG_OK == "Successfully connected to MQTT broker via proxy."

NoLog == [msg |-> "", arg |-> << >>]

\* ------------------------------------------------------ environment inputs
\* Destination hosts and ports handed to net__proxy_connect: "h", 1 and 1883.
DestHosts == { << 104 >> }
DestPorts == { 1, 1883 }

\* Arguments handed to mosquitto_proxy_set: host null, "" or "p"; ports on
\* both sides of the valid range; auth_value null, "", "B" or "Basic=".
SetHosts == { NULLSTR, << >>, << 112 >> }
SetPorts == { 0, 1, 65535, 65536 }
SetAuths == { NULLSTR, << >>, << 66 >>, << 66, 97, 115, 105, 99, 61 >> }

\* Byte streams the proxy may send before closing: a status prefix followed
\* by a tail.
StreamHeads ==
    { Http11_200,
      Http10_200,
      << 72, 84, 84, 80, 47, 49, 46, 49, 32, 52, 48, 55 >>,   \* HTTP/1.1 407
      << 72, 84, 84, 80, 47, 49, 46, 49, 32, 50, 48 >>,       \* HTTP/1.1 20
      << 72, 84, 84, 80, 47, 49, 46, 49, 0, 50, 48, 48 >>,    \* HTTP/1.1<NUL>200
      << >> }
StreamTails ==
    { << >>,
      terminator,
      << 32, 79, 75 >> \o terminator,                         \* " OK" CRLF CRLF
      << 48, 32, 79, 75 >> \o terminator,                     \* "0 OK" CRLF CRLF
      << 13, 10 >>,
      << 0 >> \o terminator,
      terminator \o << 68 >>,                                 \* bytes after the header block
      << 13, 10, 65 >> \o terminator,                         \* a header line after the status line
      << 88, 88, 88, 88 >> \o terminator,
      << 88, 88, 88, 88, 88, 88, 88, 88, 88, 88 >> }
Streams == { h \o t : h \in StreamHeads, t \in StreamTails }

\* poll() results: the return value and whether revents has POLLIN.
PollResults ==
    { [n |-> 0 - 1, pollin |-> FALSE], [n |-> 0, pollin |-> FALSE],
      [n |-> 1, pollin |-> TRUE], [n |-> 1, pollin |-> FALSE] }

\* ------------------------------------------------------------------- state
VARIABLES
    heap,        \* allocator state: blocks and the err flag
    proxy,       \* mosq->proxy: host, port, auth_header
    pc,          \* where the caller / net__proxy_connect / mosquitto_proxy_set is
    dest,        \* arguments of the running net__proxy_connect
    request,     \* char request[]: the C string snprintf stored
    len,         \* int len
    response,    \* char *response
    total_read,  \* size_t total_read
    stream,      \* bytes the proxy sends on this connection
    pos,         \* how many of them net__read has delivered
    ret,         \* value returned by the call that just finished
    log,         \* last log__printf of the running call
    io,          \* observed socket calls of the running net__proxy_connect
    call,        \* arguments of the mosquitto_proxy_set call that just returned
    hist,        \* auth_value of the last successful / last validated set call
    prev,        \* result of the previous net__proxy_connect (SpecHist only)
    sock,        \* mosq->sock: the caller's connection to the proxy
    clock        \* ms spent in poll() by the running call (SpecTime only)

vars == << heap, proxy, pc, dest, request, len, response, total_read, stream,
           pos, ret, log, io, call, hist, prev, sock, clock >>

NoDest == [host |-> << >>, port |-> 0]
NoWrite == [buf |-> << >>, count |-> 0, n |-> 0]
NoIo == [writes |-> 0, write |-> NoWrite, polled |-> FALSE, reads |-> 0,
         faulted |-> FALSE, eof |-> FALSE]
NoCall == [mosqNull |-> FALSE, host |-> NULLSTR, port |-> 0, auth |-> NULLSTR]
NoPrev == [ret |-> "", msg |-> ""]

Init ==
    /\ heap = [blocks |-> EmptyBlocks, err |-> FALSE]
    /\ proxy = [host |-> NULL, port |-> 0, auth_header |-> NULL]
    /\ pc = "idle"
    /\ dest = NoDest
    /\ request = << >>
    /\ len = 0
    /\ response = NULL
    /\ total_read = 0
    /\ stream = << >>
    /\ pos = 0
    /\ ret = ""
    /\ log = NoLog
    /\ io = NoIo
    /\ call = NoCall
    /\ hist = [ok |-> NULLSTR, valid |-> NULLSTR]
    /\ prev = NoPrev
    /\ sock = "open"
    /\ clock = 0

handshakeLocals == << dest, request, len, response, total_read, stream, pos, log,
                      io, clock >>

\* ------------------------------------------------------ mosquitto_proxy_set
mosquitto_proxy_set(mosqNull, host, port, auth_value, okHost, okAuth) ==
    LET r == proxy_set(heap, proxy, mosqNull, host, port, auth_value, okHost, okAuth)
    IN  /\ pc = "idle"
        /\ heap' = r.M
        /\ proxy' = r.proxy
        /\ ret' = r.rc
        /\ call' = [mosqNull |-> mosqNull, host |-> host, port |-> port,
                    auth |-> auth_value]
        /\ hist' = IF r.rc = MOSQ_ERR_SUCCESS
                   THEN [ok |-> auth_value, valid |-> auth_value]
                   ELSE IF r.rc = MOSQ_ERR_NOMEM
                   THEN [hist EXCEPT !.valid = NULLSTR]
                   ELSE hist
        /\ pc' = "set_done"
        /\ UNCHANGED << handshakeLocals, prev, sock >>

\* The caller takes the result of mosquitto_proxy_set.
SetReturn ==
    /\ pc = "set_done"
    /\ pc' = "idle"
    /\ ret' = ""
    /\ call' = NoCall
    /\ UNCHANGED << heap, proxy, handshakeLocals, hist, prev, sock >>

\* ------------------------------------------------------ net__proxy_connect
\* ExitFree without the call on the timeout path.
ExitFree_NoFreeOnTimeout(M, resp, msg) ==
    IF msg = LOG_TIMEOUT THEN M ELSE mosquitto__free(M, resp)

\* mosquitto__free(response) as called on the exit path that logs msg.
ExitFree(M, resp, msg) == mosquitto__free(M, resp)

\* Exit that closes the socket before returning.
Exit_ClosesSocket(M, msg, arg, rc) ==
    /\ heap' = ExitFree(M, response, msg)
    /\ log' = [msg |-> msg, arg |-> arg]
    /\ ret' = rc
    /\ pc' = "done"
    /\ sock' = "closed"

\* "free the response, log, return rc": the common shape of every exit; the
\* socket is not touched.
Exit(M, msg, arg, rc) ==
    /\ heap' = ExitFree(M, response, msg)
    /\ log' = [msg |-> msg, arg |-> arg]
    /\ ret' = rc
    /\ pc' = "done"
    /\ sock' = sock

\* ConnectEntry without the test of the malloc result.
ConnectEntry_NoNullTest(dest_host, dest_port, okAlloc) ==
    LET r == mosquitto__malloc(heap, response_size, okAlloc)
        auth == IF proxy.auth_header # NULL THEN Load(r.M, proxy.auth_header)
                ELSE NULLSTR
        f == snprintf_request(dest_host, dest_port, auth)
    IN  /\ pc = "idle"
        /\ dest' = [host |-> dest_host, port |-> dest_port]
        /\ response' = r.ptr
        /\ request' = f.buf
        /\ len' = f.len
        /\ IF RequestTooLong(f.len)
           THEN /\ heap' = ExitFree(r.M, r.ptr, LOG_TOO_LONG)
                /\ log' = [msg |-> LOG_TOO_LONG, arg |-> << >>]
                /\ ret' = MOSQ_ERR_PROXY
                /\ pc' = "done"
           ELSE /\ heap' = r.M
                /\ pc' = "write"
                /\ UNCHANGED << ret, log >>
        /\ UNCHANGED << proxy, total_read, stream, pos, io, call, hist, prev,
                        sock, clock >>

\* Entry: allocate the response buffer, format the request, check its length.
ConnectEntry(dest_host, dest_port, okAlloc) ==
    LET r == mosquitto__malloc(heap, response_size, okAlloc)
        auth == IF proxy.auth_header # NULL THEN Load(r.M, proxy.auth_header)
                ELSE NULLSTR
        f == snprintf_request(dest_host, dest_port, auth)
    IN  /\ pc = "idle"
        /\ dest' = [host |-> dest_host, port |-> dest_port]
        /\ response' = r.ptr
        /\ IF r.ptr = NULL
           THEN /\ heap' = r.M
                /\ ret' = MOSQ_ERR_NOMEM
                /\ pc' = "done"
                /\ UNCHANGED << request, len, log >>
           ELSE /\ request' = f.buf
                /\ len' = f.len
                /\ IF RequestTooLong(f.len)
                   THEN /\ heap' = ExitFree(r.M, r.ptr, LOG_TOO_LONG)
                        /\ log' = [msg |-> LOG_TOO_LONG, arg |-> << >>]
                        /\ ret' = MOSQ_ERR_PROXY
                        /\ pc' = "done"
                   ELSE /\ heap' = r.M
                        /\ pc' = "write"
                        /\ UNCHANGED << ret, log >>
        /\ UNCHANGED << proxy, total_read, stream, pos, io, call, hist, prev,
                        sock, clock >>

\* n = net__write(mosq, request, len), n in -1 .. len; on a full write the
\* proxy's answer (stream) starts to arrive.
ConnectWrite(n, st) ==
    /\ pc = "write"
    /\ io' = [io EXCEPT !.writes = @ + 1,
                        !.write = [buf |-> request, count |-> len, n |-> n]]
    /\ IF WriteFailed(n, len)
       THEN /\ Exit(heap, LOG_WRITE, << >>, MOSQ_ERR_PROXY)
            /\ UNCHANGED stream
       ELSE /\ stream' = st
            /\ pc' = IF LoopCondition(total_read) THEN "poll" ELSE "validate"
            /\ UNCHANGED << heap, log, ret, sock >>
    /\ UNCHANGED << proxy, dest, request, len, response, total_read, pos, call,
                    hist, prev, clock >>

\* int connect_timeout_ms.
connect_timeout_ms == 10000

\* PollTimedOut without the test for a timeout.
PollTimedOut_NotTested(n) == FALSE

\* "if(n == 0)" after poll.
PollTimedOut(n) == n = 0

\* PollBody that reads after any event, without the test of POLLIN.
PollBody_ReadsOnAnyEvent(res) ==
    /\ pc = "poll"
    /\ io' = [io EXCEPT !.polled = TRUE, !.faulted = @ \/ ~res.pollin]
    /\ IF res.n < 0 THEN Exit(heap, LOG_POLL, << >>, MOSQ_ERR_PROXY)
       ELSE IF PollTimedOut(res.n) THEN Exit(heap, LOG_TIMEOUT, << >>, MOSQ_ERR_PROXY)
       ELSE pc' = "read" /\ UNCHANGED << heap, log, ret, sock >>
    /\ UNCHANGED << proxy, dest, request, len, response, total_read, stream,
                    pos, call, hist, prev >>

\* PollBody that waits again after a timeout.
PollBody_RetryOnTimeout(res) ==
    /\ pc = "poll"
    /\ io' = [io EXCEPT !.polled = TRUE, !.faulted = @ \/ ~res.pollin]
    /\ IF res.n < 0 THEN Exit(heap, LOG_POLL, << >>, MOSQ_ERR_PROXY)
       ELSE IF PollTimedOut(res.n)
            THEN pc' = "poll" /\ UNCHANGED << heap, log, ret, sock >>
       ELSE IF res.pollin
            THEN pc' = "read" /\ UNCHANGED << heap, log, ret, sock >>
            ELSE Exit(heap, LOG_SOCKET, << >>, MOSQ_ERR_PROXY)
    /\ UNCHANGED << proxy, dest, request, len, response, total_read, stream,
                    pos, call, hist, prev >>

\* n = poll(&pfd, 1, connect_timeout_ms) and the test of pfd.revents.
PollBody(res) ==
    /\ pc = "poll"
    /\ io' = [io EXCEPT !.polled = TRUE, !.faulted = @ \/ ~res.pollin]
    /\ IF res.n < 0 THEN Exit(heap, LOG_POLL, << >>, MOSQ_ERR_PROXY)
       ELSE IF PollTimedOut(res.n) THEN Exit(heap, LOG_TIMEOUT, << >>, MOSQ_ERR_PROXY)
       ELSE IF res.pollin
            THEN pc' = "read" /\ UNCHANGED << heap, log, ret, sock >>
            ELSE Exit(heap, LOG_SOCKET, << >>, MOSQ_ERR_PROXY)
    /\ UNCHANGED << proxy, dest, request, len, response, total_read, stream,
                    pos, call, hist, prev >>

\* The poll step, time not observed.
ConnectPoll(res) == PollBody(res) /\ UNCHANGED clock

\* How long poll may block before it returns res: the whole timeout when it
\* reports that nothing happened, less than that otherwise.
PollWaits(res) ==
    IF res.n = 0 THEN { connect_timeout_ms } ELSE { 0, connect_timeout_ms - 1 }

\* The poll step taking wait ms.
ConnectPollTimed(res, wait) ==
    /\ wait \in PollWaits(res)
    /\ PollBody(res)
    /\ clock' = clock + wait

\* What net__read(mosq, response + total_read, count) may return: -1, 0 once
\* the proxy has sent everything and closed, else 1 .. count bytes of stream.
ReadReturns(count) ==
    { 0 - 1 } \cup (IF pos = Len(stream) THEN { 0 }
                    ELSE 1 .. Min(count, Len(stream) - pos))

\* n = net__read(...), the accumulation, the terminator scan and the loop test.
ConnectRead(n) ==
    LET count == ReadCount(total_read)
        M1 == Store(heap, response, total_read, SubSeq(stream, pos + 1, pos + n))
        total == Advance(total_read, n)
        M2 == Store(M1, response, total, << 0 >>)
    IN  /\ pc = "read"
        /\ n \in ReadReturns(count)
        /\ io' = [io EXCEPT !.reads = @ + 1, !.faulted = @ \/ n < 0,
                            !.eof = @ \/ n = 0]
        /\ IF n <= 0
           THEN /\ Exit(heap, IF n = 0 THEN LOG_CLOSED ELSE LOG_READ, << >>,
                        MOSQ_ERR_PROXY)
                /\ UNCHANGED << total_read, pos >>
           ELSE /\ heap' = M2
                /\ total_read' = total
                /\ pos' = pos + n
                /\ pc' = IF HasTerminator(Load(M2, response)) THEN "validate"
                         ELSE IF LoopCondition(total) THEN "poll"
                         ELSE "validate"
                /\ UNCHANGED << log, ret, sock >>
        /\ UNCHANGED << proxy, dest, request, len, response, stream, call, hist,
                        prev, clock >>

\* The text logged with "Proxy CONNECT failed: %s": the response cut at the
\* end of its status line (the cut is undone before the buffer is freed).
Diagnostic(M, resp) ==
    LET eol == strstr(Load(M, resp), << 13, 10 >>)
    IN  IF eol # 0 - 1 THEN Load(Store(M, resp, eol, << 0 >>), resp)
        ELSE Load(M, resp)

\* After the loop: terminator check and HTTP 200 check.
ConnectValidate ==
    /\ pc = "validate"
    /\ IF ~HasTerminator(Load(heap, response))
       THEN Exit(heap, LOG_INCOMPLETE, << >>, MOSQ_ERR_PROXY)
       ELSE IF StatusRejected(Load(heap, response))
       THEN Exit(Touch(heap, response), LOG_FAILED, Diagnostic(heap, response),
                 MOSQ_ERR_PROXY)
       ELSE Exit(heap, LOG_OK, << >>, MOSQ_ERR_SUCCESS)
    /\ UNCHANGED << proxy, dest, request, len, response, total_read, stream,
                    pos, io, call, hist, prev, clock >>

\* net__proxy_connect has returned; the caller takes the result.
ResetLocals ==
    /\ pc' = "idle"
    /\ dest' = NoDest
    /\ request' = << >>
    /\ len' = 0
    /\ response' = NULL
    /\ total_read' = 0
    /\ stream' = << >>
    /\ pos' = 0
    /\ ret' = ""
    /\ log' = NoLog
    /\ io' = NoIo
    /\ clock' = 0

ConnectReturn ==
    /\ pc = "done"
    /\ ResetLocals
    /\ UNCHANGED << heap, proxy, call, hist, prev, sock >>

\* The same, remembering the result for comparison with the next handshake.
ConnectReturnHist ==
    /\ pc = "done"
    /\ ResetLocals
    /\ prev' = [ret |-> ret, msg |-> log.msg]
    /\ UNCHANGED << heap, proxy, call, hist, sock >>

\* ---------------------------------------------------------- specifications
SetStep ==
    \E mosqNull \in BOOLEAN, host \in SetHosts, port \in SetPorts,
       auth_value \in SetAuths, okHost \in BOOLEAN, okAuth \in BOOLEAN :
        mosquitto_proxy_set(mosqNull, host, port, auth_value, okHost, okAuth)

\* Configuration calls that install an auth header line: proxy "p", port 1,
\* auth_value "B" or "Basic=".
SetStepValid ==
    \E auth_value \in SetAuths \ { NULLSTR, << >> } :
        mosquitto_proxy_set(FALSE, << 112 >>, 1, auth_value, TRUE, TRUE)

EntryStep ==
    \E dest_host \in DestHosts, dest_port \in DestPorts, okAlloc \in BOOLEAN :
        ConnectEntry(dest_host, dest_port, okAlloc)

WriteStep == \E n \in { 0 - 1, 0, len - 1, len }, st \in Streams : ConnectWrite(n, st)

\* The same with two answers only: "HTTP/1.1 200" CRLF CRLF and a 407.
WriteStepPlain ==
    \E n \in { 0 - 1, 0, len - 1, len },
       st \in { Http11_200 \o terminator,
                << 72, 84, 84, 80, 47, 49, 46, 49, 32, 52, 48, 55 >> \o terminator } :
        ConnectWrite(n, st)

PollStep == \E res \in PollResults : ConnectPoll(res)

ReadStep == \E n \in (0 - 1) .. response_size : ConnectRead(n)

\* The handshake against every stream, under the configurations that differ
\* in what the handshake reads (the auth header line).
Next ==
    \/ SetStepValid
    \/ SetReturn
    \/ EntryStep
    \/ WriteStep
    \/ PollStep
    \/ ReadStep
    \/ ConnectValidate
    \/ ConnectReturn

Spec == Init /\ [][Next]_vars

\* Every configuration call, with handshakes against two streams.
NextConfig ==
    \/ SetStep
    \/ SetReturn
    \/ EntryStep
    \/ WriteStepPlain
    \/ PollStep
    \/ ReadStep
    \/ ConnectValidate
    \/ ConnectReturn

SpecConfig == Init /\ [][NextConfig]_vars

\* Handshakes against two streams, the result of the previous one kept.
NextHist ==
    \/ SetStepValid
    \/ SetReturn
    \/ EntryStep
    \/ WriteStepPlain
    \/ PollStep
    \/ ReadStep
    \/ ConnectValidate
    \/ ConnectReturnHist

SpecHist == Init /\ [][NextHist]_vars

PollStepTimed ==
    \E res \in PollResults, wait \in { 0, connect_timeout_ms - 1, connect_timeout_ms } :
        ConnectPollTimed(res, wait)

\* Handshakes against two streams, the time spent in poll() observed.
NextTime ==
    \/ SetStepValid
    \/ SetReturn
    \/ EntryStep
    \/ WriteStepPlain
    \/ PollStepTimed
    \/ ReadStep
    \/ ConnectValidate
    \/ ConnectReturn

SpecTime == Init /\ [][NextTime]_vars

\* Two answers: "HTTP/1.1 200" CRLF CRLF, and a 407 followed by more bytes
\* than the buffer takes and no terminator.
WriteStepLong ==
    \E n \in { 0 - 1, 0, len - 1, len },
       st \in { Http11_200 \o terminator,
                << 72, 84, 84, 80, 47, 49, 46, 49, 32, 52, 48, 55 >>
                    \o << 88, 88, 88, 88, 88, 88, 88, 88, 88, 88 >> } :
        ConnectWrite(n, st)

NextLive ==
    \/ SetStepValid
    \/ SetReturn
    \/ EntryStep
    \/ WriteStepLong
    \/ PollStep
    \/ ReadStep
    \/ ConnectValidate
    \/ ConnectReturn

\* Handshakes against these two streams with every socket call returning:
\* a step of the running handshake that can be taken is taken.
SpecLive ==
    /\ Init
    /\ [][NextLive]_vars
    /\ WF_vars(WriteStepLong)
    /\ WF_vars(PollStep)
    /\ WF_vars(ReadStep)
    /\ WF_vars(ConnectValidate)

\* -------------------------------------------------------------- properties
InHandshake == pc \in { "write", "poll", "read", "validate" }

\* s contains t as a contiguous run of bytes (NUL bytes are ordinary bytes).
Occurs(s, t) ==
    \E i \in 0 .. (Len(s) - Len(t)) : \A j \in 1 .. Len(t) : s[i + j] = t[j]

\* The bytes net__read has delivered so far.
Received == SubSeq(stream, 1, pos)

\* C1: a response buffer that was allocated stays allocated while the
\* handshake runs, is never freed twice or touched after its release, and is
\* no longer allocated once net__proxy_connect has returned, on every exit.
C1_ResponseReleasedOnce ==
    /\ ~heap.err
    /\ InHandshake => heap.blocks[response].live
    /\ (pc = "done" /\ response # NULL) => ~heap.blocks[response].live

\* The timeout exit taken with the buffer allocated.
C1_Witness ==
    /\ pc = "done"
    /\ response # NULL
    /\ log.msg = LOG_TIMEOUT
    /\ ~heap.blocks[response].live

\* C2: MOSQ_ERR_SUCCESS is returned only if the whole request was written,
\* the received bytes contain CRLF CRLF and they start with "HTTP/1.1 200"
\* or "HTTP/1.0 200".
C2_SuccessOnlyIf ==
    (pc = "done" /\ ret = MOSQ_ERR_SUCCESS) =>
        /\ io.writes = 1
        /\ io.write.n = io.write.count
        /\ io.write.count = Len(io.write.buf)
        /\ Occurs(Received, terminator)
        /\ Len(Received) >= 12
        /\ SubSeq(Received, 1, 12) \in { Http11_200, Http10_200 }

\* A handshake that succeeded.
C2_Witness ==
    /\ pc = "done"
    /\ ret = MOSQ_ERR_SUCCESS
    /\ Occurs(Received, terminator)

\* C3: total_read never exceeds response_size-1, a read is never asked for
\* more than fits before the last byte of the buffer, the NUL stored at index
\* total_read is inside the buffer, and no store leaves the buffer.
C3_CursorInBounds ==
    /\ ~heap.err
    /\ total_read <= response_size - 1
    /\ pc = "read" =>
          /\ ReadCount(total_read) >= 1
          /\ total_read + ReadCount(total_read) + 1 <= Len(heap.blocks[response].data)
    /\ (InHandshake /\ total_read > 0) =>
          /\ total_read + 1 <= Len(heap.blocks[response].data)
          /\ heap.blocks[response].data[total_read + 1] = 0

\* The buffer filled to its last usable byte.
C3_Witness ==
    /\ pc = "validate"
    /\ total_read = response_size - 1
    /\ heap.blocks[response].data[response_size] = 0

\* C4: poll and read happen only after a write that transferred exactly len
\* bytes; after a short or failed write the handshake is over with the write
\* error, having polled and read nothing.
C4_WriteBeforeRead ==
    /\ (io.polled \/ io.reads > 0 \/ pc \in { "poll", "read", "validate" }) =>
          /\ io.writes = 1
          /\ io.write.count = len
          /\ io.write.n = len
    /\ (io.writes = 1 /\ io.write.n # io.write.count) =>
          /\ pc = "done"
          /\ ret = MOSQ_ERR_PROXY
          /\ log.msg = LOG_WRITE
          /\ ~io.polled
          /\ io.reads = 0

\* A write that transferred one byte less than asked.
C4_Witness ==
    /\ pc = "done"
    /\ io.writes = 1
    /\ io.write.n = io.write.count - 1
    /\ log.msg = LOG_WRITE

\* The result of the handshake when the proxy's bytes arrive in one read (as
\* many as the buffer takes) and the proxy then closes.
OneReadOutcome(st) ==
    LET text == CStr(Take(st, response_size - 1))
        closed == [ret |-> MOSQ_ERR_PROXY, msg |-> LOG_CLOSED, arg |-> << >>]
    IN  IF Len(st) = 0 THEN closed
        ELSE IF strstr(text, terminator) # 0 - 1
        THEN IF Take(text, 12) \in { Http11_200, Http10_200 }
             THEN [ret |-> MOSQ_ERR_SUCCESS, msg |-> LOG_OK, arg |-> << >>]
             ELSE [ret |-> MOSQ_ERR_PROXY, msg |-> LOG_FAILED,
                   arg |-> SubSeq(text, 1, strstr(text, << 13, 10 >>))]
        ELSE IF Len(st) >= response_size - 1
        THEN [ret |-> MOSQ_ERR_PROXY, msg |-> LOG_INCOMPLETE, arg |-> << >>]
        ELSE closed

\* C5: when every poll reports the socket readable and no read fails, the
\* result of the handshake is the one a single read of the same bytes gives,
\* however the bytes were split over the reads.
C5_SplitIndependent ==
    (pc = "done" /\ io.reads > 0 /\ ~io.faulted) =>
        [ret |-> ret, msg |-> log.msg, arg |-> log.arg] = OneReadOutcome(stream)

\* "HTTP/1.1 20" then "0 OK" CRLF CRLF, read in at least two pieces, accepted.
C5_Witness ==
    /\ pc = "done"
    /\ stream = << 72, 84, 84, 80, 47, 49, 46, 49, 32, 50, 48 >>
                    \o << 48, 32, 79, 75 >> \o terminator
    /\ io.reads >= 2
    /\ ~io.faulted
    /\ ret = MOSQ_ERR_SUCCESS

\* The bytes of s before its first CRLF (all of s when it has none).
RECURSIVE BeforeCRLF(_)
BeforeCRLF(s) ==
    IF Len(s) < 2 THEN s
    ELSE IF s[1] = 13 /\ s[2] = 10 THEN << >>
    ELSE << s[1] >> \o BeforeCRLF(Tail(s))

\* C6: a response that has its CRLF CRLF within the buffer capacity and does
\* not start with "HTTP/1.1 200" or "HTTP/1.0 200" is reported as rejected by
\* the proxy, with exactly the bytes before its first CRLF as diagnostic text.
C6_RejectedWithStatusLine ==
    ( /\ pc = "done"
      /\ io.reads > 0
      /\ ~io.faulted
      /\ Occurs(Take(stream, response_size - 1), terminator)
      /\ Take(stream, 12) \notin { Http11_200, Http10_200 } ) =>
        /\ ret = MOSQ_ERR_PROXY
        /\ log.msg = LOG_FAILED
        /\ log.arg = BeforeCRLF(stream)

\* The same for responses without a NUL byte before the terminator.
C6_RejectedWithStatusLineText ==
    ( /\ pc = "done"
      /\ io.reads > 0
      /\ ~io.faulted
      /\ Occurs(CStr(Take(stream, response_size - 1)), terminator)
      /\ Take(stream, 12) \notin { Http11_200, Http10_200 } ) =>
        /\ ret = MOSQ_ERR_PROXY
        /\ log.msg = LOG_FAILED
        /\ log.arg = BeforeCRLF(stream)

\* C7: two handshakes that fail for different reasons return different
\* values.
C7_FailureKindsDistinct ==
    ( /\ pc = "done"
      /\ prev.ret \notin { "", MOSQ_ERR_SUCCESS }
      /\ ret # MOSQ_ERR_SUCCESS
      /\ prev.msg # log.msg ) =>
        prev.ret # ret

\* C8: a request that does not fit the request buffer (text and NUL need
\* more than sizeof(request) bytes) ends the handshake with the "too long"
\* failure, and nothing is written, polled or read.
C8_TooLongNeverSent ==
    (pc # "idle" /\ pc # "set_done" /\ response # NULL /\ len >= sizeof_request) =>
        /\ pc = "done"
        /\ ret = MOSQ_ERR_PROXY
        /\ log.msg = LOG_TOO_LONG
        /\ io.writes = 0
        /\ ~io.polled
        /\ io.reads = 0

\* A request with an auth header line that is too long.
C8_Witness ==
    /\ pc = "done"
    /\ response # NULL
    /\ proxy.auth_header # NULL
    /\ len >= sizeof_request
    /\ log.msg = LOG_TOO_LONG

\* The request of the specification for destination host:port and the
\* auth_value av (null or empty: no auth line).
ExpectedRequest(host, port, av) ==
    LET hp == host \o << 58 >> \o FormatD(port)
        connectLine == << 67, 79, 78, 78, 69, 67, 84, 32 >> \o hp
                           \o << 32, 72, 84, 84, 80, 47, 49, 46, 49, 13, 10 >>
        hostLine == << 72, 111, 115, 116, 58, 32 >> \o hp \o << 13, 10 >>
        authLine == IF av = NULLSTR \/ av = << >> THEN << >>
                    ELSE << 80, 114, 111, 120, 121, 45, 65, 117, 116, 104, 111,
                            114, 105, 122, 97, 116, 105, 111, 110, 58, 32 >>
                         \o av \o << 13, 10 >>
    IN  connectLine \o hostLine \o authLine \o << 13, 10 >>

\* C9 as stated: the request handed to net__write carries the auth line of
\* the last successful mosquitto_proxy_set.
C9_RequestFromLastSuccessfulSet ==
    io.writes = 1 =>
        io.write.buf = ExpectedRequest(dest.host, dest.port, hist.ok)

\* C9 amended: the request handed to net__write carries the auth line of the
\* last mosquitto_proxy_set call that passed argument validation, and none
\* when that call failed with MOSQ_ERR_NOMEM; it ends with CRLF CRLF.
C9_RequestFromLastValidatedSet ==
    io.writes = 1 =>
        /\ io.write.buf = ExpectedRequest(dest.host, dest.port, hist.valid)
        /\ io.write.count = Len(io.write.buf)
        /\ SubSeq(io.write.buf, Len(io.write.buf) - 3, Len(io.write.buf)) = terminator

\* A request written after a set call with an auth_value succeeded and a
\* later one ran out of memory.
C9_Witness ==
    /\ io.writes = 1
    /\ hist.ok \notin { NULLSTR, << >> }
    /\ hist.valid = NULLSTR
    /\ io.write.buf = ExpectedRequest(dest.host, dest.port, NULLSTR)

\* C10: mosquitto_proxy_set returns MOSQ_ERR_INVAL exactly for a null or
\* empty host or a port outside 1..65535, and otherwise fails only for lack
\* of memory.
C10_SetValidation ==
    (pc = "set_done" /\ ~call.mosqNull) =>
        IF call.host \in { NULLSTR, << >> } \/ call.port < 1 \/ call.port > 65535
        THEN ret = MOSQ_ERR_INVAL
        ELSE ret \in { MOSQ_ERR_SUCCESS, MOSQ_ERR_NOMEM }

\* C11: a mosquitto_proxy_set call that returns MOSQ_ERR_INVAL leaves host,
\* port and auth_header as they were and frees or allocates nothing.
C11_InvalidLeavesConfig ==
    [][(pc = "idle" /\ pc' = "set_done" /\ ret' = MOSQ_ERR_INVAL) =>
           (proxy' = proxy /\ heap' = heap)]_vars

\* A rejected call made while a host and an auth header line are installed.
C11_Witness ==
    /\ pc = "set_done"
    /\ ret = MOSQ_ERR_INVAL
    /\ ~call.mosqNull
    /\ call.host # NULLSTR
    /\ proxy.host # NULL
    /\ proxy.auth_header # NULL
    /\ heap.blocks[proxy.host].live
    /\ heap.blocks[proxy.auth_header].live

\* C12: after a mosquitto_proxy_set call that returns MOSQ_ERR_NOMEM the
\* configuration is cleared: no host, no auth header line, no port.
C12_NoMemClearsAll ==
    (pc = "set_done" /\ ret = MOSQ_ERR_NOMEM) =>
        /\ proxy.host = NULL
        /\ proxy.auth_header = NULL
        /\ proxy.port = 0

\* The strings a live block may belong to.
Owners ==
    { proxy.host, proxy.auth_header } \cup (IF InHandshake THEN { response } ELSE { })

\* C13: every block allocated by mosquitto_proxy_set is either the one host
\* or auth_header points to or has been freed once: no live block is
\* unreferenced, no block is freed twice, and host and auth_header never point
\* to a freed block or to the same block.
C13_SetOwnsItsStrings ==
    /\ ~heap.err
    /\ \A a \in Addr : heap.blocks[a].live => a \in Owners
    /\ proxy.host # NULL => heap.blocks[proxy.host].live
    /\ proxy.auth_header # NULL =>
          (heap.blocks[proxy.auth_header].live /\ proxy.auth_header # proxy.host)

\* A call with an auth_value that ran out of memory after an earlier call
\* had installed an auth header line: nothing is left allocated.
C13_Witness ==
    /\ pc = "set_done"
    /\ ret = MOSQ_ERR_NOMEM
    /\ call.auth \notin { NULLSTR, << >> }
    /\ hist.ok \notin { NULLSTR, << >> }
    /\ \A a \in Addr : ~heap.blocks[a].live

\* A socket call of the running handshake has failed: short or failed write,
\* poll error, timeout or event without POLLIN, read error, zero-byte read.
FailureEvent ==
    \/ io.writes = 1 /\ io.write.n # io.write.count
    \/ io.faulted
    \/ io.eof

\* C14: the request is written at most once per handshake, and once a socket
\* call has failed the handshake is over with MOSQ_ERR_PROXY and makes no
\* further write, poll or read.
C14_FirstFailureIsTerminal ==
    /\ [](io.writes <= 1)
    /\ [](FailureEvent => (pc = "done" /\ ret = MOSQ_ERR_PROXY))
    /\ [][FailureEvent => (io' = NoIo /\ pc' = "idle")]_vars

\* The proxy closes after part of the response has been read.
C14_Witness ==
    /\ pc = "done"
    /\ io.eof
    /\ io.reads >= 2
    /\ total_read > 0
    /\ ret = MOSQ_ERR_PROXY

\* C15 as stated: the time spent waiting for the response never exceeds one
\* connect-timeout, and a handshake that has waited that long ends in Timeout.
C15_OneTimeoutOverall ==
    /\ pc \in { "poll", "read", "validate" } => clock < connect_timeout_ms
    /\ pc = "done" => clock <= connect_timeout_ms
    /\ (pc = "done" /\ clock >= connect_timeout_ms) => log.msg = LOG_TIMEOUT

\* C15 amended: each poll waits at most one connect-timeout, a poll that
\* waited the whole timeout ends the handshake in Timeout, and the waits add
\* up to at most one connect-timeout per loop iteration (at most
\* response_size-1 of them).
C15_TimeoutPerWait ==
    /\ [](clock <= (io.reads + 1) * connect_timeout_ms)
    /\ [](io.reads <= response_size - 1)
    /\ [][pc = "poll" =>
            /\ clock' - clock <= connect_timeout_ms
            /\ clock' - clock = connect_timeout_ms =>
                  (pc' = "done" /\ ret' = MOSQ_ERR_PROXY /\ log'.msg = LOG_TIMEOUT)]_vars

\* A timeout after earlier waits: more than one connect-timeout has passed.
C15_Witness ==
    /\ pc = "done"
    /\ log.msg = LOG_TIMEOUT
    /\ io.reads >= 1
    /\ clock > connect_timeout_ms

\* C16: once the received bytes contain CRLF CRLF the handshake reads no more
\* and goes to the status check, whatever the other bytes are.
C16_StopsAtTerminator ==
    Occurs(Received, terminator) =>
        \/ pc = "validate"
        \/ pc = "done" /\ log.msg \in { LOG_OK, LOG_FAILED }

\* C17: "too long or incomplete" is reported exactly when the buffer is full
\* and the received bytes hold no terminator, and a response whose terminator
\* ends within response_size bytes goes to the status check.
C17_TooLargeExactly ==
    /\ (pc = "done" /\ log.msg = LOG_INCOMPLETE) =>
          (total_read = response_size - 1 /\ ~Occurs(Received, terminator))
    /\ (pc = "done" /\ io.reads > 0 /\ ~io.faulted /\ ~io.eof
           /\ ~Occurs(Received, terminator)) =>
          log.msg = LOG_INCOMPLETE
    /\ (pc = "done" /\ io.reads > 0 /\ ~io.faulted
           /\ Occurs(Take(stream, response_size), terminator)) =>
          log.msg \in { LOG_OK, LOG_FAILED }

\* C18: every read that does not end the handshake advances the cursor by at
\* least one byte, net__read is called at most response_size-1 times, and a
\* handshake whose socket calls all return reaches its result.
C18_HandshakeTerminates ==
    /\ [](io.reads <= response_size - 1)
    /\ [](pc \in { "poll", "read", "validate" } => io.reads <= total_read)
    /\ [][(pc = "read" /\ pc' # "done") => total_read' >= total_read + 1]_vars
    /\ (pc = "write") ~> (pc = "done")

\* The buffer filled one byte per read.
C18_Witness ==
    /\ pc = "validate"
    /\ io.reads = response_size - 1
    /\ total_read = response_size - 1

\* The configuration as the handshake reads it: the strings behind the
\* pointers and the port.
ConfigText ==
    [host |-> IF proxy.host = NULL THEN NULLSTR ELSE Load(heap, proxy.host),
     port |-> proxy.port,
     auth |-> IF proxy.auth_header = NULL THEN NULLSTR
              ELSE Load(heap, proxy.auth_header)]

\* A step of net__proxy_connect, from the call up to its return statement.
HandshakeStep == InHandshake \/ (pc = "idle" /\ pc' \in { "write", "done" })

\* C19: no step of net__proxy_connect changes the proxy configuration (the
\* pointers, the port, the strings) and none closes the socket: it is open
\* when the function returns, whatever the result.
C19_ConfigAndSocketUntouched ==
    [][HandshakeStep =>
          /\ proxy' = proxy
          /\ ConfigText' = ConfigText
          /\ sock = "open"
          /\ sock' = "open"]_vars

\* A handshake rejected by the proxy, run with an auth header line installed.
C19_Witness ==
    /\ pc = "done"
    /\ log.msg = LOG_FAILED
    /\ proxy.auth_header # NULL
    /\ heap.blocks[proxy.auth_header].live
    /\ sock = "open"

\* C20: when the response buffer cannot be allocated net__proxy_connect
\* returns MOSQ_ERR_NOMEM at once: nothing is formatted, logged, written,
\* polled, read or freed.
C20_NoMemAtEntry ==
    [][(pc = "idle" /\ pc' \notin { "idle", "set_done" } /\ response' = NULL) =>
          /\ pc' = "done"
          /\ ret' = MOSQ_ERR_NOMEM
          /\ heap' = heap
          /\ io' = NoIo
          /\ log' = NoLog
          /\ request' = << >>
          /\ len' = 0]_vars

\* The allocation failing with an auth header line installed.
C20_Witness ==
    /\ pc = "done"
    /\ response = NULL
    /\ ret = MOSQ_ERR_NOMEM
    /\ proxy.auth_header # NULL
    /\ io = NoIo

\* C21: a poll that does not report the socket readable (error, timeout, or
\* an event without POLLIN) ends the handshake in that step with
\* MOSQ_ERR_PROXY, no read attempted and the cursor where it was; net__read
\* is called only from the branch taken after a poll that reported POLLIN.
C21_ReadOnlyWhenReadable ==
    /\ [][(pc = "poll" /\ io'.faulted) =>
             /\ pc' = "done"
             /\ ret' = MOSQ_ERR_PROXY
             /\ io'.reads = io.reads
             /\ total_read' = total_read
             /\ pos' = pos]_vars
    /\ [][(pc = "poll" /\ pc' = "read") => ~io'.faulted]_vars
    /\ [][(pc # "done" /\ io'.reads # io.reads) =>
             (pc = "read" /\ io.polled /\ ~io.faulted)]_vars
    /\ [](log.msg = LOG_SOCKET =>
             (pc = "done" /\ io.faulted /\ ~io.eof /\ io.reads <= total_read))

\* An event without POLLIN after part of the response has been read.
C21_Witness ==
    /\ pc = "done"
    /\ log.msg = LOG_SOCKET
    /\ ret = MOSQ_ERR_PROXY
    /\ io.reads >= 1
    /\ total_read = pos
    /\ total_read >= 1
====
